---- MODULE Spec2Model ----
(***************************************************************************)
(* Model of the astrometry worker: the job runner astro_jobs_cli.py        *)
(* (submit / status / result and the detached worker, all talking through  *)
(* files under $JOBS_DIR/<job_id>/) and the single-image pipeline          *)
(* astro_extract.py that the worker runs as a child process.               *)
(*                                                                         *)
(* Every process is a sequence of steps separated at the points where it   *)
(* touches the shared file system, so that other processes can run in      *)
(* between.  Path.write_text opens the file with truncation and then       *)
(* writes the text: between the two the file exists but holds no JSON      *)
(* document; that content is called Partial here.                          *)
(*                                                                         *)
(* What run_solve_field does with the solver's report and auxiliary files  *)
(* (the .wcs header, the .objs list, the merge, the separations, the sort) *)
(* is a function of these inputs alone; it is modelled on strings as       *)
(* sequences of characters and checked in specifications of its own,       *)
(* SpecWcs and SpecReconcile, which start from every input of a bounded    *)
(* set and take the steps of the function one after the other.             *)
(*                                                                         *)
(* to_native and angsep_deg are functions of their arguments:              *)
(* SpecNormalize and SpecAngsep apply each to every argument of a bounded  *)
(* set, twice (to the result of the first call, and with the two points    *)
(* swapped).  A double is kept with 10 fractional bits, products rounded   *)
(* as IEEE 754 rounds them.  SpecWrites is the job runner's writers with   *)
(* the clock advancing between their steps.                                *)
(***************************************************************************)
EXTENDS Integers, Sequences, FiniteSets, TLC

\* ------------------------------------------------------------------ bounds
\* Number of jobs that submit may create (each gets a fresh uuid4).
MaxJobs == 1
\* time.time() takes the values 1..MaxClock.
MaxClock == 2
\* Number of lines in the "Your field contains:" block of the solver's report.
MaxObjects == 2
\* Number of lines in the .objs file.
MaxLines == 2
\* Number of containers (list, tuple, set, dict) nested in one another in an
\* object given to to_native.
MaxNesting == 2

\* --------------------------------------------------------------- identifiers
\* uuid4().hex values handed out by cmd_submit
JobIds == 1..MaxJobs
\* an identifier a caller passes to status/result that submit never produced
UnknownId == MaxJobs + 1
AllIds == JobIds \cup {UnknownId}

\* ---------------------------------------------------------- optional values
\* Python's None, and a present value, for fields that hold a number or None
None == [some |-> FALSE, v |-> 0]
Some(x) == [some |-> TRUE, v |-> x]

\* ------------------------------------------------ command lines and parsers
\* str() of the numbers that occur on a command line: floats print with a
\* fractional part, ints without
FloatVals == {1, 3}
IntVals == {2, 4, 600, 30}
FloatStr(x) == IF x = 1 THEN "1.0" ELSE "3.0"
IntStr(n) == CASE n = 2 -> "2" [] n = 4 -> "4" [] n = 600 -> "600" [] OTHER -> "30"
\* float() / int() as argparse applies them (type=float, type=int)
ParseFloat(s) == CHOOSE x \in FloatVals : FloatStr(x) = s
ParseInt(s) == CHOOSE n \in IntVals : IntStr(n) = s

\* the value following option opt in an argv (a sequence of <<option, text>>
\* pairs), or "" when the option is not given
HasOpt(argv, opt) == \E i \in 1..Len(argv) : argv[i][1] = opt
OptVal(argv, opt) == argv[CHOOSE i \in 1..Len(argv) : argv[i][1] = opt][2]

\* argparse defaults of the submit and _worker sub-commands
DefaultDownsample == 2
DefaultTimeout == 600
\* argparse defaults of astro_extract.py --downsample and --timeout
ExtractDefaultDownsample == 2
ExtractDefaultTimeout == 300

\* ------------------------------------------------------------------- params
\* the "params" object of a status document; NullParams is JSON null
NullParams == [given |-> FALSE, scale_low |-> None, scale_high |-> None,
               downsample |-> None, timeout |-> None]
Params(lo, hi, ds, to) == [given |-> TRUE, scale_low |-> lo, scale_high |-> hi,
                           downsample |-> ds, timeout |-> to]

\* what a caller can put on the submit command line (argparse has already
\* applied type= and the defaults)
Images == {"img.jpg", "missing.jpg"}
ImageExists(path) == path = "img.jpg"
SubmitArgs == {[image |-> i, scale_low |-> lo, scale_high |-> hi,
                downsample |-> ds, timeout |-> to] :
                 i \in Images, lo \in {None}, hi \in {None},
                 ds \in {Some(DefaultDownsample)}, to \in {Some(DefaultTimeout)}}
              \cup
              {[image |-> i, scale_low |-> Some(1), scale_high |-> Some(3),
                downsample |-> Some(4), timeout |-> Some(30)] : i \in Images}

\* ---------------------------------------------------------------- documents
\* status.json: {job_id, state, message, params, created_at, updated_at}
NoStatus == [job_id |-> 0, state |-> "", message |-> "", params |-> NullParams,
             created_at |-> None, updated_at |-> 0]
\* result.json / the JSON astro_extract.py prints
NoResult == [ok |-> FALSE, error |-> "", capture |-> "", astrometry |-> "", raw |-> ""]

\* a file: missing, opened-and-truncated (not yet a JSON document), or holding
\* one whole JSON document
Absent(nodoc) == [exists |-> FALSE, whole |-> FALSE, doc |-> nodoc]
Partial(nodoc) == [exists |-> TRUE, whole |-> FALSE, doc |-> nodoc]
Whole(d) == [exists |-> TRUE, whole |-> TRUE, doc |-> d]

\* text on a pipe: either the JSON text of a document or other text
JsonText(d) == [json |-> TRUE, doc |-> d]
OtherText == [json |-> FALSE, doc |-> NoResult]

\* -------------------------------------------------------------------- state
VARIABLES
    dirs,        \* dirs[id]: $JOBS_DIR/<id>/{input,output} exist
    inputFile,   \* inputFile[id]: the image copy under <id>/input exists
    statusFile,  \* statusFile[id]: <id>/status.json
    resultFile,  \* resultFile[id]: <id>/output/result.json
    logFile,     \* logFile[id]: <id>/task.log: "absent", "open" (created), "logged"
    workdir,     \* workdir[j]: the mkdtemp directory of job j's pipeline run exists
    now,         \* time.time()
    sub,         \* sub[j]: the cmd_submit call that creates job j
    wrk,         \* wrk[j]: the detached _worker process of job j
    ext,         \* ext[j]: the astro_extract.py child of job j's worker
    rdr,         \* the cmd_result call in progress (between its two reads)
    run,         \* the locals of one run_solve_field call past the solver's exit
    call         \* one call of to_native or angsep_deg: its arguments, and what
                 \* each application returned

store == <<dirs, inputFile, statusFile, resultFile, logFile>>
jobs == <<dirs, inputFile, statusFile, resultFile, logFile, workdir, now,
          sub, wrk, ext, rdr>>
vars == <<dirs, inputFile, statusFile, resultFile, logFile, workdir, now,
          sub, wrk, ext, rdr, run, call>>

\* ----------------------------------------------------------------- JobStore
\* ensure_job_dirs: mkdir(parents=True, exist_ok=True) of input/ and output/
EnsureJobDirs(id) == [dirs EXCEPT ![id] = TRUE]

\* write_status that overlays params even when none are given
StatusOverlayParamsAlways(params, current) == params

\* write_status, lines 83-97: the document `current` that will be written
StatusOverlayParams(params, current) ==
    IF params.given THEN params ELSE current.params

\* write_status that stamps created_at anew at every write
StatusUpdateRestamped(id, state, message, params) ==
    LET f == statusFile[id]
        current == IF f.exists /\ f.whole THEN f.doc ELSE NoStatus
    IN [current EXCEPT !.job_id = id,
                       !.state = state,
                       !.message = message,
                       !.params = StatusOverlayParams(params, current),
                       !.created_at = Some(now),
                       !.updated_at = now]

StatusUpdate(id, state, message, params) ==
    LET f == statusFile[id]
        current == IF f.exists
                   THEN IF f.whole THEN f.doc
                        ELSE NoStatus            \* json.loads failed: {}
                   ELSE [NoStatus EXCEPT !.job_id = id, !.created_at = Some(now)]
    IN [current EXCEPT !.job_id = id,
                       !.state = state,
                       !.message = message,
                       !.params = StatusOverlayParams(params, current),
                       !.updated_at = now]

\* read_status, lines 104-109 (its call of ensure_job_dirs is in the callers)
ReadStatus(id) ==
    LET f == statusFile[id]
    IN IF f.exists /\ f.whole THEN [found |-> TRUE, doc |-> f.doc]
       ELSE [found |-> FALSE, doc |-> NoStatus]

\* the state of the persisted status document, "" when there is none
StateOf(id) == IF statusFile[id].whole THEN statusFile[id].doc.state ELSE ""

\* ---------------------------------------------------------------- JobEngine
\* cmd_submit, lines 190-195 / run_worker, lines 117-122
ParamsOf(a) == Params(a.scale_low, a.scale_high, a.downsample, a.timeout)

\* a submit that hands its worker the identifier of somebody else
WorkerCmdOtherJob(job_id, dst, a) == <<  <<"--job-id", UnknownId>>, <<"--image", dst>>  >>

\* cmd_submit, lines 201-213: the argv of the detached worker
WorkerCmd(job_id, dst, a) ==
    <<  <<"--job-id", job_id>>, <<"--image", dst>>  >>
    \o (IF a.scale_low.some THEN << <<"--scale-low", FloatStr(a.scale_low.v)>> >> ELSE <<>>)
    \o (IF a.scale_high.some THEN << <<"--scale-high", FloatStr(a.scale_high.v)>> >> ELSE <<>>)
    \o (IF a.downsample.some THEN << <<"--downsample", IntStr(a.downsample.v)>> >> ELSE <<>>)
    \o (IF a.timeout.some THEN << <<"--timeout", IntStr(a.timeout.v)>> >> ELSE <<>>)

\* build_parser, lines 297-303: the _worker sub-command
ParseWorkerArgs(argv) ==
    [job_id |-> OptVal(argv, "--job-id"),
     image |-> OptVal(argv, "--image"),
     scale_low |-> IF HasOpt(argv, "--scale-low")
                   THEN Some(ParseFloat(OptVal(argv, "--scale-low"))) ELSE None,
     scale_high |-> IF HasOpt(argv, "--scale-high")
                    THEN Some(ParseFloat(OptVal(argv, "--scale-high"))) ELSE None,
     downsample |-> IF HasOpt(argv, "--downsample")
                    THEN Some(ParseInt(OptVal(argv, "--downsample")))
                    ELSE Some(DefaultDownsample),
     timeout |-> IF HasOpt(argv, "--timeout")
                 THEN Some(ParseInt(OptVal(argv, "--timeout")))
                 ELSE Some(DefaultTimeout)]

\* run_worker, lines 127-140: the command line of astro_extract.py
ExtractCmd(a) ==
    <<  <<"--image", a.image>>  >>
    \o (IF a.scale_low.some THEN << <<"--scale-low", FloatStr(a.scale_low.v)>> >> ELSE <<>>)
    \o (IF a.scale_high.some THEN << <<"--scale-high", FloatStr(a.scale_high.v)>> >> ELSE <<>>)
    \o (IF a.downsample.some THEN << <<"--downsample", IntStr(a.downsample.v)>> >> ELSE <<>>)
    \o (IF a.timeout.some THEN << <<"--timeout", IntStr(a.timeout.v)>> >> ELSE <<>>)

\* astro_extract.py main, lines 464-471
ParseExtractArgs(argv) ==
    [image |-> OptVal(argv, "--image"),
     scale_low |-> IF HasOpt(argv, "--scale-low")
                   THEN Some(ParseFloat(OptVal(argv, "--scale-low"))) ELSE None,
     scale_high |-> IF HasOpt(argv, "--scale-high")
                    THEN Some(ParseFloat(OptVal(argv, "--scale-high"))) ELSE None,
     downsample |-> IF HasOpt(argv, "--downsample")
                    THEN Some(ParseInt(OptVal(argv, "--downsample")))
                    ELSE Some(ExtractDefaultDownsample),
     timeout |-> IF HasOpt(argv, "--timeout")
                 THEN Some(ParseInt(OptVal(argv, "--timeout")))
                 ELSE Some(ExtractDefaultTimeout),
     keep |-> HasOpt(argv, "--keep")]

\* f"astro_extract exit code {proc.returncode}", line 161
ExitCodeError(rc) ==
    CASE rc = 1 -> "astro_extract exit code 1"
      [] rc = 127 -> "astro_extract exit code 127"
      [] OTHER -> "astro_extract exit code"

\* run_worker, lines 155-161: stdout and exit code -> result
Interpret(proc) ==
    IF proc.returncode \in {0, 2}
    THEN IF proc.stdout.json
         THEN proc.stdout.doc
         ELSE [NoResult EXCEPT !.error = "Invalid JSON from astro_extract",
                               !.raw = "stdout"]
    ELSE [NoResult EXCEPT !.error = ExitCodeError(proc.returncode)]

\* a worker that puts a failed job back to "queued"
FinalStatusRequeue(result) ==
    IF result.ok
    THEN [state |-> "done", message |-> "Analysis complete", rc |-> 0]
    ELSE [state |-> "queued", message |-> "Job created", rc |-> 2]

\* run_worker, lines 165-170: the terminal status and the exit code
\* (str(result.get("error")) of a result without error is "None")
FinalStatus(result) ==
    IF result.ok
    THEN [state |-> "done", message |-> "Analysis complete", rc |-> 0]
    ELSE [state |-> "error",
          message |-> IF result.error = "" THEN "None" ELSE result.error,
          rc |-> 2]

\* --------------------------------------------------------------------- text
\* A Python str is a sequence of one-character strings.
Letters == {"M", "m", "N", "n", "r", "a", "d", "e", "c"}

\* str.lower()
LowerChar(ch) == CASE ch = "M" -> "m" [] ch = "N" -> "n" [] OTHER -> ch
RECURSIVE Lower(_)
Lower(s) == IF s = <<>> THEN <<>> ELSE <<LowerChar(Head(s))>> \o Lower(Tail(s))

\* str.strip()
RECURSIVE LStrip(_)
LStrip(s) == IF s # <<>> /\ Head(s) = " " THEN LStrip(Tail(s)) ELSE s
RECURSIVE RStrip(_)
RStrip(s) == IF s # <<>> /\ s[Len(s)] = " " THEN RStrip(SubSeq(s, 1, Len(s) - 1)) ELSE s
Strip(s) == RStrip(LStrip(s))

\* str.count(ch), str.replace(ch, by), `ch in s` and s.index(ch) (1-based)
Count(s, ch) == Cardinality({i \in 1..Len(s) : s[i] = ch})
RECURSIVE Replace(_, _, _)
Replace(s, ch, by) ==
    IF s = <<>> THEN <<>>
    ELSE <<IF Head(s) = ch THEN by ELSE Head(s)>> \o Replace(Tail(s), ch, by)
Contains(s, ch) == \E i \in 1..Len(s) : s[i] = ch
IndexOf(s, ch) == CHOOSE i \in 1..Len(s) : s[i] = ch /\ \A k \in 1..(i - 1) : s[k] # ch

\* str.split(ch): the parts between the separators, empty ones included
RECURSIVE SplitOn(_, _)
SplitOn(s, ch) ==
    IF ~Contains(s, ch) THEN <<s>>
    ELSE LET n == IndexOf(s, ch)
         IN <<SubSeq(s, 1, n - 1)>> \o SplitOn(SubSeq(s, n + 1, Len(s)), ch)

\* str.split(): the words between runs of blanks
RECURSIVE Split(_)
Split(s) ==
    LET t == LStrip(s)
    IN IF t = <<>> THEN <<>>
       ELSE LET n == IF Contains(t, " ") THEN IndexOf(t, " ") ELSE Len(t) + 1
            IN <<SubSeq(t, 1, n - 1)>> \o Split(SubSeq(t, n, Len(t)))

\* " ".join(words)
RECURSIVE Join(_)
Join(words) ==
    IF words = <<>> THEN <<>>
    ELSE IF Len(words) = 1 THEN words[1]
         ELSE words[1] \o <<" ">> \o Join(Tail(words))

\* [p.strip() for p in parts]
RECURSIVE StripAll(_)
StripAll(parts) ==
    IF parts = <<>> THEN <<>> ELSE <<Strip(Head(parts))>> \o StripAll(Tail(parts))

\* str.isalpha()
IsAlpha(s) == s # <<>> /\ \A i \in 1..Len(s) : s[i] \in Letters

\* float(text) for the numerals that occur in the files below; on any other
\* text float() raises ValueError
IsFloat(s) == s \in {<<"0">>, <<"9", "0">>, <<"1", "8", "0">>}
Float(s) == CASE s = <<"0">> -> 0 [] s = <<"9", "0">> -> 90 [] OTHER -> 180

\* an optional str: a missing dict key or None, and a present text
NoText == [some |-> FALSE, v |-> <<>>]
Text(s) == [some |-> TRUE, v |-> s]

\* norm() of run_solve_field, lines 422-423
norm(s) == Strip(Lower(s))

\* ------------------------------------------------------------------ objects
\* one element of astrometry.objects: a dict with some of these keys
NoObject == [raw |-> NoText, name |-> NoText, catalog |-> NoText, id |-> NoText,
             ra_deg |-> None, dec_deg |-> None, sep_arcmin |-> None]

\* the largest element of a non-empty set of numbers
Last(S) == CHOOSE n \in S : \A m \in S : m <= n

\* parse_objs_file, lines 238-286: the item made of one stripped line that is
\* neither blank nor a comment
ParseObjsLine(t) ==
    LET csv == Count(t, ",") >= 2
        parts == StripAll(SplitOn(t, ","))
        \* lines 241-247: name, then ra, then dec; a float() that raises
        \* leaves what was assigned before it
        name1 == IF csv THEN Text(parts[1]) ELSE NoText
        ra1 == IF csv /\ IsFloat(parts[2]) THEN Some(Float(parts[2])) ELSE None
        dec1 == IF csv /\ IsFloat(parts[2]) /\ IsFloat(parts[3])
                THEN Some(Float(parts[3])) ELSE None
        \* lines 250-259: ra / dec followed by a number, the last one wins
        scan == ~(ra1.some /\ dec1.some)
        toks == Split(Replace(t, "=", " "))
        raKeys == {i \in 1..(Len(toks) - 1) :
                     Lower(toks[i]) = <<"r", "a">> /\ IsFloat(toks[i + 1])}
        decKeys == {i \in 1..(Len(toks) - 1) :
                      Lower(toks[i]) = <<"d", "e", "c">> /\ IsFloat(toks[i + 1])}
        ra2 == IF scan /\ raKeys # {} THEN Some(Float(toks[Last(raKeys) + 1])) ELSE ra1
        dec2 == IF scan /\ decKeys # {} THEN Some(Float(toks[Last(decKeys) + 1])) ELSE dec1
        \* lines 262-268: name, ra, dec by position
        pos == /\ scan
               /\ ~(ra2.some /\ dec2.some)
               /\ Len(toks) >= 3
               /\ IsFloat(toks[2]) /\ IsFloat(toks[3])
        ra == IF pos THEN Some(Float(toks[2])) ELSE ra2
        dec == IF pos THEN Some(Float(toks[3])) ELSE dec2
        name3 == IF pos THEN Text(toks[1]) ELSE name1
        \* lines 270-271
        name == IF scan /\ ~name3.some /\ toks # <<>> THEN Text(toks[1]) ELSE name3
        \* lines 274-278
        named == name.some /\ name.v # <<>>
        words == Split(name.v)
        split == named /\ Len(words) >= 2 /\ IsAlpha(words[1])
        catalog == IF split THEN Text(words[1]) ELSE NoText
        ident == IF split THEN Text(Join(Tail(words))) ELSE NoText
    IN IF named /\ ra.some /\ dec.some
       THEN [NoObject EXCEPT !.name = name, !.ra_deg = ra, !.dec_deg = dec,
                             !.catalog = catalog, !.id = ident]
       ELSE [NoObject EXCEPT !.raw = Text(t)]

\* parse_objs_file, lines 229-232: blank lines and comments are skipped
Skipped(line) == Strip(line) = <<>> \/ Head(Strip(line)) = "#"

\* parse_objs_file, lines 224-288, of a file given as [exists, lines]
RECURSIVE ParseObjsLines(_)
ParseObjsLines(lines) ==
    IF lines = <<>> THEN <<>>
    ELSE (IF Skipped(Head(lines)) THEN <<>> ELSE <<ParseObjsLine(Strip(Head(lines)))>>)
         \o ParseObjsLines(Tail(lines))
parse_objs_file(file) == IF file.exists THEN ParseObjsLines(file.lines) ELSE <<>>

\* run_solve_field, lines 371-398: the object of one non-blank line of the
\* "Your field contains:" block
FieldObject(text) ==
    LET line == Strip(text)
        slash == Contains(line, "/")
        n == IndexOf(line, "/")
        lhs == Strip(SubSeq(line, 1, n - 1))
        rhs == Strip(SubSeq(line, n + 1, Len(line)))
        parts == Split(IF slash THEN lhs ELSE line)
        name == IF slash THEN rhs ELSE line
        catalog == IF slash
                   THEN IF Len(parts) >= 2 THEN parts[1] ELSE <<>>
                   ELSE IF Len(parts) >= 2 /\ IsAlpha(parts[1]) THEN parts[1] ELSE <<>>
        ident == IF slash
                 THEN IF Len(parts) >= 2 THEN Join(Tail(parts)) ELSE lhs
                 ELSE IF Len(parts) >= 2 /\ IsAlpha(parts[1])
                      THEN Join(Tail(parts)) ELSE <<>>
    IN [NoObject EXCEPT !.raw = Text(line), !.name = Text(name),
                        !.catalog = IF catalog # <<>> THEN Text(catalog) ELSE NoText,
                        !.id = IF ident # <<>> THEN Text(ident) ELSE NoText]

\* run_solve_field, lines 365-400, of the lines that follow the heading up to
\* the first blank one
RECURSIVE FieldObjects(_)
FieldObjects(lines) ==
    IF lines = <<>> THEN <<>>
    ELSE <<FieldObject(Head(lines))>> \o FieldObjects(Tail(lines))

\* --------------------------------------------------------- ObjectReconciler
\* line 431: norm(o2.get("name", o2.get("raw", "")))
ObjectKey(o) ==
    norm(IF o.name.some THEN o.name.v ELSE IF o.raw.some THEN o.raw.v ELSE <<>>)

\* a search that keeps the last element of the right name instead of stopping
RECURSIVE LastMatchUpTo(_, _, _)
LastMatchUpTo(objs, key, k) ==
    IF k = 0 THEN 0
    ELSE IF objs[k].name.some /\ norm(objs[k].name.v) = key THEN k
         ELSE LastMatchUpTo(objs, key, k - 1)
LastMatch(objs, key) == LastMatchUpTo(objs, key, Len(objs))

\* lines 432-435: the index of the first element with this normalized name, 0
\* when there is none (match = None)
RECURSIVE FirstMatchFrom(_, _, _)
FirstMatchFrom(objs, key, k) ==
    IF k > Len(objs) THEN 0
    ELSE IF objs[k].name.some /\ norm(objs[k].name.v) = key THEN k
         ELSE FirstMatchFrom(objs, key, k + 1)
FirstMatch(objs, key) == FirstMatchFrom(objs, key, 1)

\* line 437: o2.update of every key of the match but "raw"
Update(o, p) ==
    [raw |-> o.raw,
     name |-> IF p.name.some THEN p.name ELSE o.name,
     catalog |-> IF p.catalog.some THEN p.catalog ELSE o.catalog,
     id |-> IF p.id.some THEN p.id ELSE o.id,
     ra_deg |-> IF p.ra_deg.some THEN p.ra_deg ELSE o.ra_deg,
     dec_deg |-> IF p.dec_deg.some THEN p.dec_deg ELSE o.dec_deg,
     sep_arcmin |-> IF p.sep_arcmin.some THEN p.sep_arcmin ELSE o.sep_arcmin]

\* lines 429-438: one entry per free-text object
RECURSIVE MergeLoop(_, _)
MergeLoop(objects, objs) ==
    IF objects = <<>> THEN <<>>
    ELSE LET o == Head(objects)
             k == FirstMatch(objs, ObjectKey(o))
         IN <<IF k # 0 THEN Update(o, objs[k]) ELSE o>> \o MergeLoop(Tail(objects), objs)

\* line 439: the keys of the free-text objects
UsedKeys(objects) == {ObjectKey(objects[i]) : i \in 1..Len(objects)}

\* an append loop that forgets to look at the used keys
UnmatchedAll(p, used) == p.name.some

\* lines 442-444: a named element whose key no free-text object has
Unmatched(p, used) == p.name.some /\ norm(p.name.v) \notin used

\* lines 441-445
RECURSIVE AppendLoop(_, _)
AppendLoop(objs, used) ==
    IF objs = <<>> THEN <<>>
    ELSE (IF Unmatched(Head(objs), used) THEN <<Head(objs)>> ELSE <<>>)
         \o AppendLoop(Tail(objs), used)

\* ----------------------------------------------------------------- Geometry
\* A double in [-1, 1] is kept with 10 fractional bits in place of 52: the
\* integer x stands for x / One.  A product is rounded to the nearest such
\* number, ties to even, as IEEE 754 rounds it; a sum of two of them is exact.
One == 1024
Mul(x, y) ==
    LET q == (x * y) \div One
        r == (x * y) % One
    IN IF 2 * r > One \/ (2 * r = One /\ q % 2 = 1) THEN q + 1 ELSE q

\* math.sin / math.cos of math.radians(d), rounded likewise, for d a multiple
\* of 90 degrees or one of -10, 10, 30
Sin(d) == CASE d = 10 -> 178 [] d = -10 -> -178 [] d = 30 -> 512
            [] d % 360 = 90 -> One [] d % 360 = 270 -> -One
            [] d % 180 = 0 -> 0
Cos(d) == CASE d \in {10, -10} -> 1008 [] d = 30 -> 887
            [] d % 360 = 0 -> One [] d % 360 = 180 -> -One
            [] d % 180 = 90 -> 0
\* math.degrees(math.acos(x)) in whole degrees, for the cosines that the
\* angles above give
AcosDeg(x) ==
    CASE x = 1024 -> 0 [] x = 1023 -> 3 [] x = 1008 -> 10 [] x = 962 -> 20
      [] x = 961 -> 20 [] x = 887 -> 30 [] x = 784 -> 40 [] x = 512 -> 60
      [] x = 256 -> 76 [] x = 178 -> 80 [] x = 89 -> 85 [] x = 31 -> 88
      [] x = 0 -> 90 [] x = -31 -> 92 [] x = -89 -> 95 [] x = -178 -> 100
      [] x = -512 -> 120 [] x = -784 -> 140 [] x = -887 -> 150
      [] x = -961 -> 160 [] x = -962 -> 160 [] x = -1008 -> 170
      [] x = -1023 -> 177 [] x = -1024 -> 180
\* max(-1.0, min(1.0, x))
Clamp(x) == IF x > One THEN One ELSE IF x < -One THEN -One ELSE x

\* angsep_deg, lines 206-216
angsep_deg(ra1_deg, dec1_deg, ra2_deg, dec2_deg) ==
    AcosDeg(Clamp(Mul(Sin(dec1_deg), Sin(dec2_deg))
                  + Mul(Mul(Cos(dec1_deg), Cos(dec2_deg)), Cos(ra1_deg - ra2_deg))))

\* a separation test that asks for the right ascension of the center only
HasSeparationRaOnly(ra_c, dec_c, o) == ra_c.some /\ o.ra_deg.some /\ o.dec_deg.some

\* line 449
HasSeparation(ra_c, dec_c, o) ==
    ra_c.some /\ dec_c.some /\ o.ra_deg.some /\ o.dec_deg.some

\* lines 448-451
RECURSIVE Separations(_, _, _)
Separations(merged, ra_c, dec_c) ==
    IF merged = <<>> THEN <<>>
    ELSE LET o == Head(merged)
         IN <<IF HasSeparation(ra_c, dec_c, o)
              THEN [o EXCEPT !.sep_arcmin =
                       Some(angsep_deg(ra_c.v, dec_c.v, o.ra_deg.v, o.dec_deg.v) * 60)]
              ELSE o>>
            \o Separations(Tail(merged), ra_c, dec_c)

\* the key given to entries without a separation, line 453 (1e9)
MissingSepKey == 1000000000

\* a sort key that puts the entries without a separation first
SortKeyMissingFirst(o) == IF o.sep_arcmin.some THEN o.sep_arcmin.v ELSE -1

\* line 453: x.get("sep_arcmin", 1e9)
SortKey(o) == IF o.sep_arcmin.some THEN o.sep_arcmin.v ELSE MissingSepKey

\* list.sort(key=...): stable, ascending
RECURSIVE Insert(_, _)
Insert(s, o) ==
    IF s = <<>> THEN <<o>>
    ELSE IF SortKey(Head(s)) <= SortKey(o) THEN <<Head(s)>> \o Insert(Tail(s), o)
         ELSE <<o>> \o s
RECURSIVE Sort(_)
Sort(s) == IF s = <<>> THEN <<>> ELSE Insert(Sort(SubSeq(s, 1, Len(s) - 1)), s[Len(s)])

\* ------------------------------------------------------------- SolutionParser
\* a card of the .wcs header as hdr.get(k) returns it: None, a number, or a
\* text that float() rejects
NoCard == [kind |-> "absent", v |-> 0]
Cards == {NoCard, [kind |-> "num", v |-> 90], [kind |-> "text", v |-> 0]}
NoWcs == [exists |-> FALSE, CRVAL1 |-> NoCard, CRVAL2 |-> NoCard,
          CD1_1 |-> NoCard, CD1_2 |-> NoCard, CD2_1 |-> NoCard, CD2_2 |-> NoCard]

\* astro["cd_matrix"]: a dict with some of the four keys, or no such entry
NoMatrix == [some |-> FALSE, CD1_1 |-> None, CD1_2 |-> None,
             CD2_1 |-> None, CD2_2 |-> None]
CdEntry(card) == IF card.kind = "num" THEN Some(card.v) ELSE None

\* lines 405-415: what the header adds to a solution whose center, as parsed
\* from the report, is ra0 / dec0; any exception ends the block where it is
ReadWcsHeader(wcs, ra0, dec0) ==
    IF ~wcs.exists \/ wcs.CRVAL1.kind # "num"
    THEN [ra_center |-> ra0, dec_center |-> dec0, cd_matrix |-> NoMatrix]
    ELSE LET ra == IF ra0.some THEN ra0 ELSE Some(wcs.CRVAL1.v)
         IN IF wcs.CRVAL2.kind # "num"
            THEN [ra_center |-> ra, dec_center |-> dec0, cd_matrix |-> NoMatrix]
            ELSE LET dec == IF dec0.some THEN dec0 ELSE Some(wcs.CRVAL2.v)
                     cards == {wcs.CD1_1, wcs.CD1_2, wcs.CD2_1, wcs.CD2_2}
                     cd == [some |-> \E c \in cards : c.kind = "num",
                            CD1_1 |-> CdEntry(wcs.CD1_1), CD1_2 |-> CdEntry(wcs.CD1_2),
                            CD2_1 |-> CdEntry(wcs.CD2_1), CD2_2 |-> CdEntry(wcs.CD2_2)]
                 IN [ra_center |-> ra, dec_center |-> dec,
                     cd_matrix |-> IF \E c \in cards : c.kind = "text"
                                   THEN NoMatrix ELSE cd]

\* ------------------------------------------------------------ Normalization
\* A Python object: its type and, of the fields below, those the type uses.
\*   n        the value of a finite int, float, Fraction, Decimal, IFDRational
\*            (of a bool: 1 for True)
\*   special  "" for a finite number, else "huge" (a rational beyond the
\*            largest double), "inf", "nan", "snan" (a signaling NaN), or
\*            "nofloat" (an IFDRational whose float() raises)
\*   text     the characters of a str; of any other object, what str() gives
\*            where that is not computed below
\*   bytes    the bytes of a bytes or bytearray
\*   items    the elements of a list, tuple or set in iteration order, the
\*            values of a dict in insertion order
\*   keys     the keys of a dict in insertion order
PyObject(type) == [type |-> type, n |-> 0, special |-> "", text |-> <<>>,
                   bytes |-> <<>>, items |-> <<>>, keys |-> <<>>]
PyNone == PyObject("NoneType")
PyFloat(n) == [PyObject("float") EXCEPT !.n = n]
PyStr(s) == [PyObject("str") EXCEPT !.text = s]
PyList(items) == [PyObject("list") EXCEPT !.items = items]
PyDict(keys, items) == [PyObject("dict") EXCEPT !.keys = keys, !.items = items]

\* a call that returned v, and a call that raised
Returned(v) == [ok |-> TRUE, v |-> v]
Raised == [ok |-> FALSE, v |-> PyNone]

\* str(n) of an int n >= 0
RECURSIVE IntText(_)
IntText(n) ==
    LET digits == <<"0", "1", "2", "3", "4", "5", "6", "7", "8", "9">>
    IN IF n < 10 THEN <<digits[n + 1]>>
       ELSE IntText(n \div 10) \o <<digits[(n % 10) + 1]>>

\* str(obj), lines 57, 78 and 85
StrOf(obj) ==
    CASE obj.type = "str" -> obj.text
      [] obj.type = "int" -> IntText(obj.n)
      [] obj.type = "NoneType" -> <<"N", "o", "n", "e">>
      [] obj.type = "bool" -> IF obj.n = 1 THEN <<"T", "r", "u", "e">>
                              ELSE <<"F", "a", "l", "s", "e">>
      [] OTHER -> obj.text

\* float(obj), lines 52 and 55: Fraction.__float__ divides two ints and raises
\* OverflowError beyond the doubles; Decimal.__float__ gives inf there, nan for
\* a quiet NaN, and raises ValueError for a signaling NaN
FloatOf(obj) ==
    CASE obj.special = "" -> Returned(PyFloat(obj.n))
      [] obj.type = "Decimal" /\ obj.special \in {"huge", "inf"}
            -> Returned([PyObject("float") EXCEPT !.special = "inf"])
      [] obj.type = "Decimal" /\ obj.special = "nan"
            -> Returned([PyObject("float") EXCEPT !.special = "nan"])
      [] OTHER -> Raised

\* bytes.decode("utf-8", errors="replace"), line 62, of the bytes 97 ("a") and
\* 255 (no UTF-8 sequence: U+FFFD takes its place); it never raises
RECURSIVE Decode(_)
Decode(b) == IF b = <<>> THEN <<>>
             ELSE <<IF Head(b) = 97 THEN "a" ELSE "U+FFFD">> \o Decode(Tail(b))

\* d[k] = v on the dict (keys, items): a key already there keeps its place
DictSet(d, k, v) ==
    IF \E i \in 1..Len(d.keys) : d.keys[i] = k
    THEN LET i == CHOOSE i \in 1..Len(d.keys) : d.keys[i] = k
         IN [d EXCEPT !.items[i] = v]
    ELSE [d EXCEPT !.keys = Append(@, k), !.items = Append(@, v)]

\* to_native, lines 45-85; NativeItems is the comprehension of lines 72/82 and
\* NativeDict that of line 78 (an exception in either leaves the function)
RECURSIVE to_native(_), NativeItems(_), NativeDict(_, _, _)
NativeItems(items) ==
    IF items = <<>> THEN Returned(PyList(<<>>))
    ELSE LET x == to_native(Head(items))
             rest == NativeItems(Tail(items))
         IN IF x.ok /\ rest.ok THEN Returned(PyList(<<x.v>> \o rest.v.items))
            ELSE Raised
NativeDict(keys, items, d) ==
    IF keys = <<>> THEN Returned(d)
    ELSE LET v == to_native(Head(items))
         IN IF v.ok
            THEN NativeDict(Tail(keys), Tail(items),
                            DictSet(d, PyStr(StrOf(Head(keys))), v.v))
            ELSE Raised
to_native(obj) ==
    CASE obj.type \in {"NoneType", "bool", "int", "float", "str"} -> Returned(obj)
      [] obj.type \in {"Fraction", "Decimal"} -> FloatOf(obj)
      [] obj.type = "IFDRational" ->
            IF FloatOf(obj).ok THEN FloatOf(obj) ELSE Returned(PyStr(StrOf(obj)))
      [] obj.type \in {"bytes", "bytearray"} -> Returned(PyStr(Decode(obj.bytes)))
      [] obj.type = "dict" -> NativeDict(obj.keys, obj.items, PyDict(<<>>, <<>>))
      [] obj.type \in {"list", "tuple", "set"} -> NativeItems(obj.items)
      [] OTHER -> Returned(PyStr(StrOf(obj)))

\* --------------------------------------------------------- inputs of to_native
\* the objects that are no containers
Leaves ==
    { PyNone, [PyObject("bool") EXCEPT !.n = 1],                 \* True
      [PyObject("int") EXCEPT !.n = 7], PyFloat(2),
      [PyObject("float") EXCEPT !.special = "nan"],
      PyStr(<<"a">>),
      [PyObject("bytes") EXCEPT !.bytes = <<97, 255>>],
      [PyObject("bytearray") EXCEPT !.bytes = <<97>>],
      [PyObject("Fraction") EXCEPT !.n = 3],
      [PyObject("Fraction") EXCEPT !.special = "huge"],       \* Fraction(10**400)
      [PyObject("Decimal") EXCEPT !.n = 4],
      [PyObject("Decimal") EXCEPT !.special = "huge"],        \* Decimal("1e400")
      [PyObject("Decimal") EXCEPT !.special = "nan"],         \* Decimal("NaN")
      [PyObject("Decimal") EXCEPT !.special = "snan"],        \* Decimal("sNaN")
      [PyObject("IFDRational") EXCEPT !.n = 5],
      [PyObject("IFDRational") EXCEPT !.special = "nofloat", !.text = <<"5", "/", "0">>] }
\* the keys given to a dict: "1", 1 and None
Keys == {PyStr(<<"1">>), [PyObject("int") EXCEPT !.n = 1], PyNone}
\* the object put next to another in a container of two
Sibling == [PyObject("Fraction") EXCEPT !.n = 3]

\* the number of containers nested in obj
RECURSIVE Nesting(_)
Nesting(obj) ==
    LET inner == {Nesting(obj.items[i]) : i \in 1..Len(obj.items)} \cup {0}
    IN IF obj.type \in {"list", "tuple", "set", "dict"}
       THEN 1 + CHOOSE m \in inner : \A k \in inner : k <= m
       ELSE 0

\* hash(obj) is defined: obj can be an element of a set
RECURSIVE Hashable(_)
Hashable(obj) ==
    /\ obj.type \notin {"list", "set", "dict", "bytearray"}
    /\ \A i \in 1..Len(obj.items) : Hashable(obj.items[i])

\* ------------------------------------------------- inputs of run_solve_field
\* the sequences over S of at most n elements
SeqsUpTo(S, n) == UNION {[1..k -> S] : k \in 0..n}

\* lines of the "Your field contains:" block: "M1", "n 1", "M2", "N 1 / M1"
StdoutLines == { <<"M", "1">>, <<"n", " ", "1">>, <<"M", "2">>,
                 <<"N", " ", "1", " ", "/", " ", "M", "1">> }

\* lines of the .objs file: "M1,0,0", "m1 90 0", "M2 ra=180 dec=0", "M3",
\* "N 1, 0, 90", "#c"
ObjsLines == { <<"M", "1", ",", "0", ",", "0">>,
               <<"m", "1", " ", "9", "0", " ", "0">>,
               <<"M", "2", " ", "r", "a", "=", "1", "8", "0", " ", "d", "e", "c", "=", "0">>,
               <<"M", "3">>,
               <<"N", " ", "1", ",", " ", "0", ",", " ", "9", "0">>,
               <<"#", "c">> }

NoFile == [exists |-> FALSE, lines |-> <<>>]
ObjsFiles == {NoFile} \cup {[exists |-> TRUE, lines |-> l] : l \in SeqsUpTo(ObjsLines, MaxLines)}
Reports == SeqsUpTo(StdoutLines, MaxObjects)

\* astro.get("ra_center") / astro.get("dec_center") after the header was read
Centers == { [ra_center |-> None, dec_center |-> None],
             [ra_center |-> Some(0), dec_center |-> Some(0)],
             [ra_center |-> Some(0), dec_center |-> None] }
\* the center parsed from the report: RE_RADEC gives both or none
ReportCenters == { [ra_center |-> None, dec_center |-> None],
                   [ra_center |-> Some(0), dec_center |-> Some(0)] }
WcsFiles == {NoWcs} \cup
            {[exists |-> TRUE, CRVAL1 |-> c1, CRVAL2 |-> c2,
              CD1_1 |-> a, CD1_2 |-> b, CD2_1 |-> c, CD2_2 |-> d] :
               c1 \in Cards, c2 \in Cards, a \in Cards, b \in Cards, c \in Cards, d \in Cards}

\* the locals of run_solve_field
NoRun == [pc |-> "idle", report |-> <<>>, objs_file |-> NoFile, wcs |-> NoWcs,
          ra_center |-> None, dec_center |-> None, cd_matrix |-> NoMatrix,
          objects |-> <<>>, objs_with_radec |-> <<>>, merged |-> <<>>, used |-> {}]

\* no call of to_native or angsep_deg under way
NoCall == [pc |-> "idle", args |-> <<>>, out |-> <<>>]

\* ------------------------------------------------------------ initial state
NoArgs == [image |-> "", scale_low |-> None, scale_high |-> None,
           downsample |-> None, timeout |-> None]
NoWorkerArgs == [job_id |-> 0, image |-> "", scale_low |-> None, scale_high |-> None,
                 downsample |-> None, timeout |-> None]
NoExtractArgs == [image |-> "", scale_low |-> None, scale_high |-> None,
                  downsample |-> None, timeout |-> None, keep |-> FALSE]
NoProc == [returncode |-> 0, stdout |-> OtherText]
NoSolve == [timed_out |-> FALSE, returncode |-> 0, report |-> ""]

\* a process that does not run (not started yet, or gone)
NoSubmit == [pc |-> "idle", args |-> NoArgs, current |-> NoStatus]
NoWorker == [pc |-> "none", argv |-> <<>>, args |-> NoWorkerArgs, current |-> NoStatus,
             proc |-> NoProc, result |-> NoResult, rc |-> 0]
NoExtract == [pc |-> "none", argv |-> <<>>, args |-> NoExtractArgs, capture |-> "",
              solve |-> NoSolve, stdout |-> OtherText, returncode |-> 0]

Init ==
    /\ dirs = [id \in AllIds |-> FALSE]
    /\ inputFile = [id \in AllIds |-> FALSE]
    /\ statusFile = [id \in AllIds |-> Absent(NoStatus)]
    /\ resultFile = [id \in AllIds |-> Absent(NoResult)]
    /\ logFile = [id \in AllIds |-> "absent"]
    /\ workdir = [j \in JobIds |-> FALSE]
    /\ now = 1
    /\ sub = [j \in JobIds |-> NoSubmit]
    /\ wrk = [j \in JobIds |-> NoWorker]
    /\ ext = [j \in JobIds |-> NoExtract]
    /\ rdr = [busy |-> FALSE, id |-> 0]
    /\ run = NoRun
    /\ call = NoCall

\* time.time() is non-decreasing
Tick ==
    /\ now < MaxClock
    /\ now' = now + 1
    /\ UNCHANGED <<dirs, inputFile, statusFile, resultFile, logFile, workdir,
                   sub, wrk, ext, rdr, run, call>>

\* ------------------------------------------------------------------- submit
\* an identifier generator that may hand out an identifier twice
FreshIdReused(j) == TRUE

\* uuid4: an identifier no job has yet (the smallest one, the ids being opaque)
FreshId(j) == sub[j].pc = "idle" /\ \A k \in JobIds : k < j => sub[k].pc # "idle"

\* cmd_submit, lines 179-188: new job id, ensure_job_dirs, then "Image not
\* found" and return 1, or the copy of the image into <id>/input
Submit(j, a) ==
    /\ FreshId(j)
    /\ dirs' = EnsureJobDirs(j)
    /\ IF ImageExists(a.image)
       THEN /\ inputFile' = [inputFile EXCEPT ![j] = TRUE]
            /\ sub' = [sub EXCEPT ![j].pc = "queue", ![j].args = a]
       ELSE /\ inputFile' = inputFile
            /\ sub' = [sub EXCEPT ![j].pc = "input_not_found", ![j].args = a]
    /\ UNCHANGED <<statusFile, resultFile, logFile, workdir, now, wrk, ext, rdr, run, call>>

\* cmd_submit, lines 190-196, write_status up to the truncating open of line 98
SubmitWriteStatus(j) ==
    /\ sub[j].pc = "queue"
    /\ dirs' = EnsureJobDirs(j)
    /\ sub' = [sub EXCEPT ![j].pc = "writing",
                          ![j].current = StatusUpdate(j, "queued", "Job created",
                                                      ParamsOf(sub[j].args))]
    /\ statusFile' = [statusFile EXCEPT ![j] = Partial(NoStatus)]
    /\ UNCHANGED <<inputFile, resultFile, logFile, workdir, now, wrk, ext, rdr, run, call>>

\* write_status, line 98: the text of the document reaches the file
SubmitStatusWritten(j) ==
    /\ sub[j].pc = "writing"
    /\ statusFile' = [statusFile EXCEPT ![j] = Whole(sub[j].current)]
    /\ sub' = [sub EXCEPT ![j].pc = "spawn", ![j].current = NoStatus]
    /\ UNCHANGED <<dirs, inputFile, resultFile, logFile, workdir, now, wrk, ext, rdr, run, call>>

\* cmd_submit, lines 198-228: open the log, Popen the worker, print the job id
SubmitSpawn(j) ==
    /\ sub[j].pc = "spawn"
    /\ logFile' = [logFile EXCEPT ![j] = IF @ = "absent" THEN "open" ELSE @]
    /\ wrk' = [wrk EXCEPT ![j].pc = "start",
                          ![j].argv = WorkerCmd(j, sub[j].args.image, sub[j].args)]
    /\ sub' = [sub EXCEPT ![j].pc = "returned"]
    /\ UNCHANGED <<dirs, inputFile, statusFile, resultFile, workdir, now, ext, rdr, run, call>>

\* ------------------------------------------------------------------- worker
\* cmd__worker / run_worker, lines 116-124: parse the argv, ensure_job_dirs,
\* write_status("processing") up to the truncating open
WorkerStart(j) ==
    /\ wrk[j].pc = "start"
    /\ LET a == ParseWorkerArgs(wrk[j].argv)
       IN /\ wrk' = [wrk EXCEPT ![j].pc = "processing",
                                ![j].argv = <<>>,
                                ![j].args = a,
                                ![j].current = StatusUpdate(a.job_id, "processing",
                                                            "Solving image", ParamsOf(a))]
          /\ dirs' = EnsureJobDirs(a.job_id)
          /\ statusFile' = [statusFile EXCEPT ![a.job_id] = Partial(NoStatus)]
    /\ UNCHANGED <<inputFile, resultFile, logFile, workdir, now, sub, ext, rdr, run, call>>

\* write_status, line 98, for each of the worker's status writes; after the
\* terminal one run_worker returns and the process is gone
WorkerStatusWritten(j) ==
    /\ wrk[j].pc \in {"processing", "finishing"}
    /\ statusFile' = [statusFile EXCEPT ![j] = Whole(wrk[j].current)]
    /\ wrk' = [wrk EXCEPT ![j] =
                 IF wrk[j].pc = "processing"
                 THEN [wrk[j] EXCEPT !.pc = "run", !.current = NoStatus]
                 ELSE [NoWorker EXCEPT !.pc = "returned", !.rc = wrk[j].rc]]
    /\ UNCHANGED <<dirs, inputFile, resultFile, logFile, workdir, now, sub, ext, rdr, run, call>>

\* what subprocess.run of line 144 can do: start astro_extract.py, have the
\* shell exit at once because it cannot run it (exit code 127), or raise
Launches == {"started", "no_binary", "raises"}

\* run_worker, lines 143-144 and 150: the child is started, or the call raises
WorkerRun(j, launch) ==
    /\ wrk[j].pc = "run"
    /\ CASE launch = "started" ->
              /\ ext' = [ext EXCEPT ![j].pc = "start",
                                    ![j].argv = ExtractCmd(wrk[j].args)]
              /\ wrk' = [wrk EXCEPT ![j].pc = "wait"]
         [] launch = "no_binary" ->
              /\ ext' = [ext EXCEPT ![j].pc = "exited", ![j].returncode = 127]
              /\ wrk' = [wrk EXCEPT ![j].pc = "wait"]
         [] OTHER ->
              /\ wrk' = [wrk EXCEPT ![j].pc = "except"]
              /\ ext' = ext
    /\ UNCHANGED <<dirs, inputFile, statusFile, resultFile, logFile, workdir, now,
                   sub, rdr, run, call>>

\* run_worker, lines 144-149: the child has exited; capture it, append the log
WorkerCollect(j) ==
    /\ wrk[j].pc = "wait"
    /\ ext[j].pc = "exited"
    /\ wrk' = [wrk EXCEPT ![j].pc = "interpret",
                          ![j].proc = [returncode |-> ext[j].returncode,
                                       stdout |-> ext[j].stdout]]
    /\ logFile' = [logFile EXCEPT ![j] = "logged"]
    /\ UNCHANGED <<dirs, inputFile, statusFile, resultFile, workdir, now,
                   sub, ext, rdr, run, call>>

\* run_worker, lines 150-152: write_status("error") up to the truncating open
WorkerExcept(j) ==
    /\ wrk[j].pc = "except"
    /\ dirs' = EnsureJobDirs(j)
    /\ wrk' = [wrk EXCEPT ![j].pc = "finishing",
                          ![j].rc = 1,
                          ![j].current = StatusUpdate(j, "error", "Execution failed",
                                                      NullParams)]
    /\ statusFile' = [statusFile EXCEPT ![j] = Partial(NoStatus)]
    /\ UNCHANGED <<inputFile, resultFile, logFile, workdir, now, sub, ext, rdr, run, call>>

\* run_worker, lines 155-163, up to the truncating open of result.json
WorkerWriteResult(j) ==
    /\ wrk[j].pc = "interpret"
    /\ wrk' = [wrk EXCEPT ![j].pc = "result",
                          ![j].proc = NoProc,
                          ![j].result = Interpret(wrk[j].proc)]
    /\ resultFile' = [resultFile EXCEPT ![j] = Partial(NoResult)]
    /\ UNCHANGED <<dirs, inputFile, statusFile, logFile, workdir, now, sub, ext, rdr, run, call>>

\* run_worker, line 163: the text of the result reaches the file
WorkerResultWritten(j) ==
    /\ wrk[j].pc = "result"
    /\ resultFile' = [resultFile EXCEPT ![j] = Whole(wrk[j].result)]
    /\ wrk' = [wrk EXCEPT ![j].pc = "flip"]
    /\ UNCHANGED <<dirs, inputFile, statusFile, logFile, workdir, now, sub, ext, rdr, run, call>>

\* run_worker, lines 165-170: write_status(done | error) up to the truncating open
WorkerFinalStatus(j) ==
    /\ wrk[j].pc = "flip"
    /\ LET fs == FinalStatus(wrk[j].result)
       IN wrk' = [wrk EXCEPT ![j].pc = "finishing",
                             ![j].rc = fs.rc,
                             ![j].current = StatusUpdate(j, fs.state, fs.message,
                                                         NullParams)]
    /\ dirs' = EnsureJobDirs(j)
    /\ statusFile' = [statusFile EXCEPT ![j] = Partial(NoStatus)]
    /\ UNCHANGED <<inputFile, resultFile, logFile, workdir, now, sub, ext, rdr, run, call>>

\* ------------------------------------------- astro_extract.py (the pipeline)
\* extract_photo_metadata / extract_fits_metadata: the capture block of an image
Metadata(image) == IF image = "img.jpg" THEN "exif" ELSE ""

\* what solve-field does within subprocess.run of lines 327-333: exceed the
\* timeout, or exit with a code and a text report
SolveOutcomes ==
    { [timed_out |-> TRUE, returncode |-> 0, report |-> ""],
      [timed_out |-> FALSE, returncode |-> 0, report |-> "solved"],
      [timed_out |-> FALSE, returncode |-> 3, report |-> "solved"],
      [timed_out |-> FALSE, returncode |-> 0, report |-> "bad_number"],
      [timed_out |-> FALSE, returncode |-> 1, report |-> "unsolved"] }

\* a process that has exited: its output and exit code are what is left
Exited(e, stdout, returncode) ==
    [NoExtract EXCEPT !.pc = "exited", !.args = e.args,
                      !.stdout = stdout, !.returncode = returncode]

\* main, lines 493-500: the error record is printed, exit code 2; the working
\* directory is not touched
ExtractFailed(e, message) ==
    Exited(e, JsonText([NoResult EXCEPT !.error = message, !.capture = e.capture]), 2)

\* main, lines 463-482: parse the arguments, check the image (the worker
\* passes the copy under <id>/input), read the metadata
ExtractStart(j) ==
    /\ ext[j].pc = "start"
    /\ LET a == ParseExtractArgs(ext[j].argv)
           e == [ext[j] EXCEPT !.argv = <<>>, !.args = a]
       IN ext' = [ext EXCEPT ![j] =
                    IF inputFile[j]
                    THEN [e EXCEPT !.pc = "solve", !.capture = Metadata(a.image)]
                    ELSE Exited(e, JsonText([NoResult EXCEPT
                                               !.error = "Image not found"]), 1)]
    /\ UNCHANGED <<dirs, inputFile, statusFile, resultFile, logFile, workdir, now,
                   sub, wrk, rdr, run, call>>

\* run_solve_field, lines 316-342: mkdtemp, copy, run solve-field, reject a
\* timeout and every exit code but 0 and 3
ExtractSolveField(j, outcome) ==
    /\ ext[j].pc = "solve"
    /\ workdir' = [workdir EXCEPT ![j] = TRUE]
    /\ ext' = [ext EXCEPT ![j] =
                 IF outcome.timed_out
                 THEN ExtractFailed(ext[j], "solve-field timeout")
                 ELSE IF outcome.returncode \notin {0, 3}
                      THEN ExtractFailed(ext[j], "solve-field failed")
                      ELSE [ext[j] EXCEPT !.pc = "parse", !.solve = outcome]]
    /\ UNCHANGED <<dirs, inputFile, statusFile, resultFile, logFile, now,
                   sub, wrk, rdr, run, call>>

\* run_solve_field, lines 344-457: parse the report; float() of a matched
\* number such as "1..2" raises ValueError
ExtractParse(j) ==
    /\ ext[j].pc = "parse"
    /\ ext' = [ext EXCEPT ![j] =
                 IF ext[j].solve.report = "bad_number"
                 THEN ExtractFailed(ext[j], "could not convert string to float")
                 ELSE [ext[j] EXCEPT !.pc = "emit"]]
    /\ UNCHANGED <<dirs, inputFile, statusFile, resultFile, logFile, workdir, now,
                   sub, wrk, rdr, run, call>>

\* main, lines 502-518: print the result, remove the working directory unless
\* --keep, exit code 0
ExtractEmit(j) ==
    /\ ext[j].pc = "emit"
    /\ ext' = [ext EXCEPT ![j] =
                 Exited(ext[j], JsonText([NoResult EXCEPT
                                            !.ok = TRUE,
                                            !.capture = ext[j].capture,
                                            !.astrometry = "solution"]), 0)]
    /\ workdir' = [workdir EXCEPT ![j] = IF ext[j].args.keep THEN @ ELSE FALSE]
    /\ UNCHANGED <<dirs, inputFile, statusFile, resultFile, logFile, now,
                   sub, wrk, rdr, run, call>>

\* ---------------------------------------------------------- status / result
\* the identifiers a caller can pass: those submit has printed, and any other
Callable(id) == id = UnknownId \/ (id \in JobIds /\ sub[id].pc = "returned")

\* cmd_status, lines 232-237: what it prints
StatusOutput(id) ==
    LET st == ReadStatus(id)
    IN IF st.found
       THEN [kind |-> "status", status |-> st.doc]
       ELSE [kind |-> "job_not_found", status |-> NoStatus]

\* cmd_status, lines 231-237 (read_status calls ensure_job_dirs)
CmdStatus(id) ==
    /\ Callable(id)
    /\ dirs' = EnsureJobDirs(id)
    /\ UNCHANGED <<inputFile, statusFile, resultFile, logFile, workdir, now,
                   sub, wrk, ext, rdr, run, call>>

\* cmd_result, lines 247-253: what it prints when result.json exists
ResultOutput(id) ==
    IF resultFile[id].whole
    THEN [kind |-> "document", state |-> "", doc |-> resultFile[id].doc]
    ELSE [kind |-> "invalid_result", state |-> "", doc |-> NoResult]

\* a not-ready message that reads the state from the wrong place
NotReadyStateUnknown(st) == "unknown"

\* the state named by "Job not ready (state=...)", line 244
NotReadyState(st) == IF st.found THEN st.doc.state ELSE "unknown"

\* cmd_result, lines 243-246: what it prints when result.json does not exist
NotReadyOutput(id) ==
    [kind |-> "not_ready", state |-> NotReadyState(ReadStatus(id)), doc |-> NoResult]

\* cmd_result, lines 241-242 and 247-253: ensure_job_dirs, then either print
\* ResultOutput or go on to the not-ready branch
CmdResult(id) ==
    /\ Callable(id)
    /\ ~rdr.busy
    /\ dirs' = EnsureJobDirs(id)
    /\ rdr' = IF resultFile[id].exists THEN rdr ELSE [busy |-> TRUE, id |-> id]
    /\ UNCHANGED <<inputFile, statusFile, resultFile, logFile, workdir, now,
                   sub, wrk, ext, run, call>>

\* cmd_result, lines 243-246: read the status (read_status calls
\* ensure_job_dirs), print NotReadyOutput
CmdResultNotReady ==
    /\ rdr.busy
    /\ dirs' = EnsureJobDirs(rdr.id)
    /\ rdr' = [busy |-> FALSE, id |-> 0]
    /\ UNCHANGED <<inputFile, statusFile, resultFile, logFile, workdir, now,
                   sub, wrk, ext, run, call>>

\* ------------------------------------------------------------ specification
Next ==
    \/ \E j \in JobIds, a \in SubmitArgs : Submit(j, a)
    \/ \E j \in JobIds : SubmitWriteStatus(j)
    \/ \E j \in JobIds : SubmitStatusWritten(j)
    \/ \E j \in JobIds : SubmitSpawn(j)
    \/ \E j \in JobIds : WorkerStart(j)
    \/ \E j \in JobIds : WorkerStatusWritten(j)
    \/ \E j \in JobIds, l \in Launches : WorkerRun(j, l)
    \/ \E j \in JobIds : WorkerCollect(j)
    \/ \E j \in JobIds : WorkerExcept(j)
    \/ \E j \in JobIds : WorkerWriteResult(j)
    \/ \E j \in JobIds : WorkerResultWritten(j)
    \/ \E j \in JobIds : WorkerFinalStatus(j)
    \/ \E j \in JobIds : ExtractStart(j)
    \/ \E j \in JobIds, o \in SolveOutcomes : ExtractSolveField(j, o)
    \/ \E j \in JobIds : ExtractParse(j)
    \/ \E j \in JobIds : ExtractEmit(j)
    \/ \E id \in AllIds : CmdStatus(id)
    \/ \E id \in AllIds : CmdResult(id)
    \/ CmdResultNotReady

Spec == Init /\ [][Next]_vars

\* the same with the clock advancing between any two steps
SpecClock == Init /\ [][Next \/ Tick]_vars

\* the processes that write the job store, with the clock advancing between
\* any two steps; the status and result calls (lines 231-255), which write
\* neither a status document nor the clock, are not scheduled
NextWrites ==
    \/ \E j \in JobIds, a \in SubmitArgs : Submit(j, a)
    \/ \E j \in JobIds : SubmitWriteStatus(j)
    \/ \E j \in JobIds : SubmitStatusWritten(j)
    \/ \E j \in JobIds : SubmitSpawn(j)
    \/ \E j \in JobIds : WorkerStart(j)
    \/ \E j \in JobIds : WorkerStatusWritten(j)
    \/ \E j \in JobIds, l \in Launches : WorkerRun(j, l)
    \/ \E j \in JobIds : WorkerCollect(j)
    \/ \E j \in JobIds : WorkerExcept(j)
    \/ \E j \in JobIds : WorkerWriteResult(j)
    \/ \E j \in JobIds : WorkerResultWritten(j)
    \/ \E j \in JobIds : WorkerFinalStatus(j)
    \/ \E j \in JobIds : ExtractStart(j)
    \/ \E j \in JobIds, o \in SolveOutcomes : ExtractSolveField(j, o)
    \/ \E j \in JobIds : ExtractParse(j)
    \/ \E j \in JobIds : ExtractEmit(j)
    \/ Tick

SpecWrites == Init /\ [][NextWrites]_vars

\* ----------------------------------------------------- run_solve_field, steps
\* the job store and the processes, untouched by the steps below
NoJobs ==
    /\ dirs = [id \in AllIds |-> FALSE]
    /\ inputFile = [id \in AllIds |-> FALSE]
    /\ statusFile = [id \in AllIds |-> Absent(NoStatus)]
    /\ resultFile = [id \in AllIds |-> Absent(NoResult)]
    /\ logFile = [id \in AllIds |-> "absent"]
    /\ workdir = [j \in JobIds |-> FALSE]
    /\ now = 1
    /\ sub = [j \in JobIds |-> NoSubmit]
    /\ wrk = [j \in JobIds |-> NoWorker]
    /\ ext = [j \in JobIds |-> NoExtract]
    /\ rdr = [busy |-> FALSE, id |-> 0]

\* lines 404-415 for any report center and any header
InitWcs ==
    /\ NoJobs
    /\ call = NoCall
    /\ run \in {[NoRun EXCEPT !.pc = "wcs", !.wcs = w,
                              !.ra_center = c.ra_center, !.dec_center = c.dec_center] :
                  w \in WcsFiles, c \in ReportCenters}

ReadWcs ==
    /\ run.pc = "wcs"
    /\ LET r == ReadWcsHeader(run.wcs, run.ra_center, run.dec_center)
       IN run' = [run EXCEPT !.pc = "wcs_read",
                             !.ra_center = r.ra_center,
                             !.dec_center = r.dec_center,
                             !.cd_matrix = r.cd_matrix]
    /\ UNCHANGED <<jobs, call>>

NextWcs == ReadWcs

SpecWcs == InitWcs /\ [][NextWcs]_vars

\* lines 364-457 for any object block, any .objs file and any center
InitReconcile ==
    /\ NoJobs
    /\ call = NoCall
    /\ run \in {[NoRun EXCEPT !.pc = "objects", !.report = r, !.objs_file = f,
                              !.ra_center = c.ra_center, !.dec_center = c.dec_center] :
                  r \in Reports, f \in ObjsFiles, c \in Centers}

\* lines 364-402
ParseFieldObjects ==
    /\ run.pc = "objects"
    /\ run' = [run EXCEPT !.pc = "objs", !.objects = FieldObjects(run.report)]
    /\ UNCHANGED <<jobs, call>>

\* lines 418-420
ReadObjsFile ==
    /\ run.pc = "objs"
    /\ run' = [run EXCEPT !.pc = "merge",
                          !.objs_with_radec = parse_objs_file(run.objs_file)]
    /\ UNCHANGED <<jobs, call>>

\* lines 426-439
MergeObjects ==
    /\ run.pc = "merge"
    /\ run' = [run EXCEPT !.pc = "append",
                          !.merged = MergeLoop(run.objects, run.objs_with_radec),
                          !.used = UsedKeys(run.objects)]
    /\ UNCHANGED <<jobs, call>>

\* lines 441-445
AppendUnmatched ==
    /\ run.pc = "append"
    /\ run' = [run EXCEPT !.pc = "separations",
                          !.merged = @ \o AppendLoop(run.objs_with_radec, run.used)]
    /\ UNCHANGED <<jobs, call>>

\* lines 447-451
ComputeSeparations ==
    /\ run.pc = "separations"
    /\ run' = [run EXCEPT !.pc = "sort",
                          !.merged = Separations(@, run.ra_center, run.dec_center)]
    /\ UNCHANGED <<jobs, call>>

\* lines 453-454
SortObjects ==
    /\ run.pc = "sort"
    /\ run' = [run EXCEPT !.pc = "sorted", !.merged = Sort(@)]
    /\ UNCHANGED <<jobs, call>>

NextReconcile ==
    \/ ParseFieldObjects
    \/ ReadObjsFile
    \/ MergeObjects
    \/ AppendUnmatched
    \/ ComputeSeparations
    \/ SortObjects

SpecReconcile == InitReconcile /\ [][NextReconcile]_vars

\* ----------------------------------------------------------- angsep_deg, calls
\* any two points of the sky: right ascensions 0, 90, 180 and declinations
\* -10, 0, 10, 30, 90 degrees
InitAngsep ==
    /\ NoJobs
    /\ run = NoRun
    /\ call \in {[NoCall EXCEPT !.pc = "args", !.args = <<a, b, c, d>>] :
                   a \in {0, 90, 180}, b \in {-10, 0, 10, 30, 90},
                   c \in {0, 90, 180}, d \in {-10, 0, 10, 30, 90}}

\* angsep_deg(a, b, c, d)
Separation ==
    /\ call.pc = "args"
    /\ call' = [call EXCEPT !.pc = "sep",
                  !.out = <<angsep_deg(call.args[1], call.args[2],
                                       call.args[3], call.args[4])>>]
    /\ UNCHANGED <<jobs, run>>

\* angsep_deg(c, d, a, b)
SeparationSwapped ==
    /\ call.pc = "sep"
    /\ call' = [call EXCEPT !.pc = "swapped",
                  !.out = Append(@, angsep_deg(call.args[3], call.args[4],
                                               call.args[1], call.args[2]))]
    /\ UNCHANGED <<jobs, run>>

NextAngsep == Separation \/ SeparationSwapped

SpecAngsep == InitAngsep /\ [][NextAngsep]_vars

\* ------------------------------------------------------------ to_native, calls
\* the object handed to to_native (lines 494, 511): any leaf, then wrapped in
\* containers up to MaxNesting deep, each of one or two elements
InitNormalize ==
    /\ NoJobs
    /\ run = NoRun
    /\ call \in {[NoCall EXCEPT !.pc = "obj", !.args = <<o>>] : o \in Leaves}

\* [obj], (obj,) or {obj}
WrapObject(type) ==
    /\ call.pc = "obj"
    /\ Nesting(call.args[1]) < MaxNesting
    /\ type = "set" => Hashable(call.args[1])
    /\ call' = [call EXCEPT !.args = << [PyObject(type) EXCEPT !.items = call.args] >>]
    /\ UNCHANGED <<jobs, run>>

\* {k: obj}
WrapDict(k) ==
    /\ call.pc = "obj"
    /\ Nesting(call.args[1]) < MaxNesting
    /\ call' = [call EXCEPT !.args = <<PyDict(<<k>>, call.args)>>]
    /\ UNCHANGED <<jobs, run>>

\* a second element, which iteration yields before or after the first
AddSibling(first) ==
    /\ call.pc = "obj"
    /\ call.args[1].type \in {"list", "tuple", "set"}
    /\ Len(call.args[1].items) = 1
    /\ call.args[1].type = "set" => call.args[1].items[1] # Sibling
    /\ call' = [call EXCEPT !.args[1].items =
                   IF first THEN <<Sibling>> \o @ ELSE Append(@, Sibling)]
    /\ UNCHANGED <<jobs, run>>

\* a second entry k: Sibling
AddEntry(k) ==
    /\ call.pc = "obj"
    /\ call.args[1].type = "dict"
    /\ call.args[1].keys \in {<<h>> : h \in Keys \ {k}}
    /\ call' = [call EXCEPT !.args[1] = DictSet(@, k, Sibling)]
    /\ UNCHANGED <<jobs, run>>

\* to_native(obj)
Normalize ==
    /\ call.pc = "obj"
    /\ call' = [call EXCEPT !.pc = "native", !.out = <<to_native(call.args[1])>>]
    /\ UNCHANGED <<jobs, run>>

\* to_native of what the first call returned
NormalizeAgain ==
    /\ call.pc = "native"
    /\ call.out[1].ok
    /\ call' = [call EXCEPT !.pc = "again", !.out = Append(@, to_native(call.out[1].v))]
    /\ UNCHANGED <<jobs, run>>

NextNormalize ==
    \/ \E type \in {"list", "tuple", "set"} : WrapObject(type)
    \/ \E k \in Keys : WrapDict(k)
    \/ \E first \in BOOLEAN : AddSibling(first)
    \/ \E k \in Keys : AddEntry(k)
    \/ Normalize
    \/ NormalizeAgain

SpecNormalize == InitNormalize /\ [][NextNormalize]_vars

\* ------------------------------------------------------------------- claims
\* the document the process now writing job j's status will put in the file
Pending(j) == IF sub[j].pc = "writing" THEN sub[j].current ELSE wrk[j].current

\* what a result call prints when both of its reads see the present files
ResultCall(id) == IF resultFile[id].exists THEN ResultOutput(id) ELSE NotReadyOutput(id)

StateChanges == { <<"queued", "processing">>, <<"processing", "done">>,
                  <<"processing", "error">> }

\* C1: the persisted state of a job only moves queued -> processing ->
\* done | error.  Each status write replaces a whole document in state s by
\* the writer's document in state s' with <<s, s'>> one of the three changes;
\* the first document written is "queued"; nothing else alters a whole
\* document, so a job in done or error stays there.
C1_StateMonotonic ==
    [][\A j \in JobIds :
         /\ (~statusFile[j].exists /\ statusFile'[j].exists)
               => Pending(j)'.state = "queued"
         /\ (statusFile[j].whole /\ ~statusFile'[j].whole)
               => /\ statusFile'[j].exists
                  /\ <<statusFile[j].doc.state, Pending(j)'.state>> \in StateChanges
         /\ (~statusFile[j].whole /\ statusFile'[j].whole)
               => statusFile'[j].doc = Pending(j)
         /\ (statusFile[j].whole /\ statusFile'[j].whole)
               => statusFile'[j] = statusFile[j]]_vars

\* C1 witness: a job has gone all the way to a terminal state
C1_Witness == \E j \in JobIds : wrk[j].pc = "returned" /\ StateOf(j) = "done"

\* C2: whenever the persisted status of a job is done or error, its result
\* document exists and is whole.
C2_TerminalHasResult ==
    \A j \in JobIds : StateOf(j) \in {"done", "error"} => resultFile[j].whole

\* C3 (as claimed): whenever the persisted state is queued or processing, a
\* result call returns the not-ready indication naming that state, never a
\* result document.
C3_NotReadyWhileNotTerminal ==
    \A id \in AllIds :
        (Callable(id) /\ StateOf(id) \in {"queued", "processing"})
           => /\ ResultCall(id).kind = "not_ready"
              /\ ResultCall(id).state = StateOf(id)

\* the worker of job j has not yet begun to write result.json
BeforeResultWrite(j) ==
    wrk[j].pc \in {"start", "processing", "run", "wait", "interpret", "except"}

\* C3 (amended): as long as the worker has not begun to write the result
\* document, a result call returns the not-ready indication, never a result
\* document, and while the persisted state is queued or processing the
\* indication names that state; this covers a call that made its first read
\* earlier and reads the status now.
C3_NotReadyBeforeResultWrite ==
    \A j \in JobIds :
        (Callable(j) /\ BeforeResultWrite(j))
           => /\ ResultCall(j).kind = "not_ready"
              /\ StateOf(j) \in {"queued", "processing"}
                   => /\ ResultCall(j).state = StateOf(j)
                      /\ (rdr.busy /\ rdr.id = j) => NotReadyOutput(j).state = StateOf(j)

\* C3 witness: a result call is between its two reads while the job is
\* processing and the analysis runs
C3_Witness ==
    \E j \in JobIds : /\ rdr.busy /\ rdr.id = j
                      /\ StateOf(j) = "processing" /\ wrk[j].pc = "wait"

\* C4: once the state is done a result call returns the stored document with
\* ok = true; once it is error a result call returns the stored document with
\* ok = false and a non-empty error message.
C4_ResultAgreesWithState ==
    \A j \in JobIds :
        Callable(j) =>
           /\ StateOf(j) = "done"
                => (ResultCall(j).kind = "document" /\ ResultCall(j).doc.ok)
           /\ StateOf(j) = "error"
                => /\ ResultCall(j).kind = "document"
                   /\ ~ResultCall(j).doc.ok
                   /\ ResultCall(j).doc.error # ""

\* C5: a submit that reports the missing image has launched no worker and has
\* created nothing in the job store: no directory, no input copy, no status
\* or result document, no log.
C5_NotFoundCreatesNothing ==
    \A j \in JobIds :
        sub[j].pc = "input_not_found"
           => /\ wrk[j].pc = "none"
              /\ ~dirs[j] /\ ~inputFile[j]
              /\ ~statusFile[j].exists /\ ~resultFile[j].exists
              /\ logFile[j] = "absent"

\* C6: every step of a status or result call leaves the job store unchanged,
\* and status answers not-found for an identifier that was never submitted.
C6_ReadOnly ==
    [][/\ StatusOutput(UnknownId).kind = "job_not_found"
       /\ \A id \in AllIds :
             (CmdStatus(id) \/ CmdResult(id) \/ CmdResultNotReady) => UNCHANGED store]_vars

\* C7: every whole status document of a job carries the params given to its
\* submit, also after the status writes that pass no params.
C7_ParamsSticky ==
    \A j \in JobIds :
        /\ statusFile[j].whole => statusFile[j].doc.params = ParamsOf(sub[j].args)
        /\ wrk[j].pc \in {"processing", "finishing"}
              => wrk[j].current.params = ParamsOf(sub[j].args)

\* C7 witness: a job submitted with its own params has reached a terminal
\* state, whose status was written without params
C7_Witness ==
    \E j \in JobIds : /\ StateOf(j) \in {"done", "error"}
                      /\ sub[j].args.scale_low.some
                      /\ statusFile[j].doc.params.scale_low = Some(1)

\* C8: once the queued status of a job has been persisted (its submit has
\* returned), a status call gets a whole status document, never not-found.
C8_StatusAlwaysWhole ==
    \A j \in JobIds : Callable(j) => StatusOutput(j).kind = "status"

\* C9: a worker that has returned after a failed analysis (exit code other
\* than 0) has persisted a result document with ok = false and has left the
\* job in state error with the failure message.
C9_FailureEndsInError ==
    \A j \in JobIds :
        (wrk[j].pc = "returned" /\ wrk[j].rc # 0)
           => /\ StateOf(j) = "error"
              /\ statusFile[j].doc.message # ""
              /\ resultFile[j].whole
              /\ ~resultFile[j].doc.ok

\* C10: when the pipeline has exited and --keep was not given, its temporary
\* working directory no longer exists.
C10_WorkdirRemoved ==
    \A j \in JobIds : (ext[j].pc = "exited" /\ ~ext[j].args.keep) => ~workdir[j]

\* ---------------------------------------------- claims on the object list
\* the entries that come from the free-text block carry its line as "raw";
\* the elements of the .objs file that are appended have a name and no "raw"
HasRaw(e) == e.raw.some
HasNoRaw(e) == ~e.raw.some
ClearSep(e) == [e EXCEPT !.sep_arcmin = None]

\* the positions in the auxiliary list of the elements with normalized name key
Hits(key) ==
    {k \in 1..Len(run.objs_with_radec) :
       /\ run.objs_with_radec[k].name.some
       /\ Strip(Lower(run.objs_with_radec[k].name.v)) = key}
First(S) == CHOOSE n \in S : \A m \in S : n <= m

\* a free-text object with the fields of the first auxiliary element of its
\* normalized name laid over it, its raw line kept
Enriched(o) ==
    LET hits == Hits(Strip(Lower(o.name.v)))
        p == run.objs_with_radec[First(hits)]
    IN IF hits = {} THEN o
       ELSE [o EXCEPT !.name = p.name, !.ra_deg = p.ra_deg, !.dec_deg = p.dec_deg,
                      !.catalog = IF p.catalog.some THEN p.catalog ELSE @,
                      !.id = IF p.id.some THEN p.id ELSE @]

\* C11: every free-text mention appears exactly once in the merged list,
\* enriched from the first auxiliary element of the same normalized name and
\* from no later one, with its own raw line.  Before the sort the i-th entry
\* is the i-th mention enriched; after it the entries with a raw line are the
\* enriched mentions, each as many times as it occurs among them.
C11_FirstMatchEnriches ==
    LET derived == SelectSeq(run.merged, HasRaw)
        n == Len(run.objects)
    IN /\ run.pc \in {"append", "separations", "sort"}
            => /\ Len(run.merged) >= n
               /\ \A i \in 1..n : ClearSep(run.merged[i]) = Enriched(run.objects[i])
       /\ run.pc = "sorted"
            => /\ Len(derived) = n
               /\ \A i \in 1..n :
                     Cardinality({j \in 1..n : ClearSep(derived[j]) = Enriched(run.objects[i])})
                       = Cardinality({j \in 1..n : Enriched(run.objects[j])
                                                     = Enriched(run.objects[i])})

\* C11 witness: a sorted list with a mention whose normalized name two
\* auxiliary elements with different coordinates have
C11_Witness ==
    /\ run.pc = "sorted"
    /\ \E i \in 1..Len(run.objects) :
          LET hits == Hits(Strip(Lower(run.objects[i].name.v)))
          IN \E k \in hits : /\ k # First(hits)
                             /\ run.objs_with_radec[k].ra_deg
                                  # run.objs_with_radec[First(hits)].ra_deg

\* a named auxiliary element whose normalized name no free-text mention has
Leftover(p) ==
    /\ p.name.some
    /\ \A i \in 1..Len(run.objects) :
          Strip(Lower(p.name.v)) # Strip(Lower(run.objects[i].name.v))

\* C12: the named auxiliary elements that match no free-text mention are each
\* in the merged list exactly once: before the sort they are what follows the
\* entries of the mentions, in the order of the file; after the sort the entries without a raw line are these elements, each as
\* many times as it occurs among them.
C12_LeftoversAppended ==
    LET left == SelectSeq(run.objs_with_radec, Leftover)
        n == Len(run.objects)
        tail == SelectSeq(run.merged, HasNoRaw)
    IN /\ run.pc \in {"separations", "sort"}
            => /\ Len(run.merged) = n + Len(left)
               /\ \A k \in 1..Len(left) : ClearSep(run.merged[n + k]) = left[k]
       /\ run.pc = "sorted"
            => /\ Len(tail) = Len(left)
               /\ \A k \in 1..Len(left) :
                     Cardinality({j \in 1..Len(tail) : ClearSep(tail[j]) = left[k]})
                       = Cardinality({j \in 1..Len(left) : left[j] = left[k]})

\* C12 witness: after the append loop, behind the entry of a mention, two
\* different unmatched elements
C12_Witness ==
    LET left == SelectSeq(run.objs_with_radec, Leftover)
    IN /\ run.pc = "separations"
       /\ Len(run.objects) >= 1
       /\ Len(left) >= 2
       /\ left[1] # left[2]

\* the lines of the .objs file that are neither blank nor comments
NotSkipped(line) == ~Skipped(line)

\* C13: every line of the .objs file that is neither blank nor a comment has
\* its item, those without a name and coordinates as a record of the raw line
\* alone, and every such raw-only record is, unchanged, in the final list.
C13_NoLineLost ==
    run.pc = "sorted" =>
       /\ Len(run.objs_with_radec) = Len(SelectSeq(run.objs_file.lines, NotSkipped))
       /\ \A k \in 1..Len(run.objs_with_radec) :
             LET p == run.objs_with_radec[k]
             IN ~p.name.some
                  => /\ p = [NoObject EXCEPT !.raw = p.raw]
                     /\ \E i \in 1..Len(run.merged) : run.merged[i] = p

\* the separations of the entries of a list
SepsOf(list) == {list[i].sep_arcmin : i \in 1..Len(list)}

\* the entries of a list with separation sep, in their order
WithSep(list, sep) ==
    LET Same(e) == e.sep_arcmin = sep
    IN SelectSeq(list, Same)

\* C14: the sort leaves a list in which an entry with separation s1 is never
\* behind one with a larger separation s2, no entry without a separation is
\* in front of one with a separation, and the entries of one separation, and
\* those without any, are in the order the merge had left them in.
C14_SortedStable ==
    [][(run.pc = "sort" /\ run'.pc = "sorted") =>
         LET before == run.merged
             after == run'.merged
         IN /\ Len(after) = Len(before)
            /\ \A i, j \in 1..Len(after) :
                  i < j => /\ (after[i].sep_arcmin.some /\ after[j].sep_arcmin.some)
                                => after[i].sep_arcmin.v <= after[j].sep_arcmin.v
                           /\ after[j].sep_arcmin.some => after[i].sep_arcmin.some
            /\ \A sep \in SepsOf(before) \cup SepsOf(after) :
                  WithSep(after, sep) = WithSep(before, sep)]_vars

\* C14 witness: a sorted list in which an appended element stands in front of
\* the entry of a free-text mention (the merge puts it behind), with two
\* different entries of one separation and an entry without separation
C14_Witness ==
    /\ run.pc = "sorted"
    /\ \E i, j \in 1..Len(run.merged) :
          i < j /\ ~run.merged[i].raw.some /\ run.merged[j].raw.some
    /\ \E i, j \in 1..Len(run.merged) :
          /\ i < j
          /\ run.merged[i].sep_arcmin.some
          /\ run.merged[i].sep_arcmin = run.merged[j].sep_arcmin
          /\ run.merged[i] # run.merged[j]
    /\ \E i \in 1..Len(run.merged) : ~run.merged[i].sep_arcmin.some

\* C15: no two entries of the final list have the same normalized name.
C15_NoDuplicateNames ==
    run.pc = "sorted" =>
       \A i, j \in 1..Len(run.merged) :
          (i < j /\ run.merged[i].name.some /\ run.merged[j].name.some)
             => Strip(Lower(run.merged[i].name.v)) # Strip(Lower(run.merged[j].name.v))

\* C16: once the .wcs header has been read, the solution has a plate-transform
\* matrix only if the header has all four of CD1_1, CD1_2, CD2_1, CD2_2, and
\* that matrix has all four terms.
C16_MatrixNeedsAllFour ==
    (run.pc = "wcs_read" /\ run.cd_matrix.some)
       => /\ \A c \in {run.wcs.CD1_1, run.wcs.CD1_2, run.wcs.CD2_1, run.wcs.CD2_2} :
                c.kind # "absent"
          /\ \A t \in {run.cd_matrix.CD1_1, run.cd_matrix.CD1_2,
                       run.cd_matrix.CD2_1, run.cd_matrix.CD2_2} : t.some

\* an entry of the list has both of its own coordinates
HasCoordinates(e) == e.ra_deg.some /\ e.dec_deg.some

\* C20: once the separations are computed, an entry carries sep_arcmin if and
\* only if both center coordinates are known and the entry has both ra_deg and
\* dec_deg; before that no entry carries one.
C20_SeparationIffCenterAndCoordinates ==
    /\ run.pc \in {"sort", "sorted"}
         => \A i \in 1..Len(run.merged) :
               run.merged[i].sep_arcmin.some
                 <=> (run.ra_center.some /\ run.dec_center.some
                      /\ HasCoordinates(run.merged[i]))
    /\ run.pc \in {"append", "separations"}
         => \A i \in 1..Len(run.merged) : ~run.merged[i].sep_arcmin.some

\* C20 witness: a final list for a known center with an entry that has
\* coordinates and a separation, and one that has neither
C20_Witness ==
    /\ run.pc = "sorted"
    /\ run.ra_center.some /\ run.dec_center.some
    /\ \E i \in 1..Len(run.merged) :
          HasCoordinates(run.merged[i]) /\ run.merged[i].sep_arcmin.some
    /\ \E i \in 1..Len(run.merged) :
          ~HasCoordinates(run.merged[i]) /\ ~run.merged[i].sep_arcmin.some

\* ------------------------------------------- claims on pipeline and engine
\* C17: the pipeline takes the solver's exit codes 0 and 3 as success and a
\* timeout or any other exit code as failure; on failure it prints a record
\* with ok = false, an error message, no astrometry block and the capture
\* metadata it had read, and on success it prints ok = true with astrometry.
C17_SolverOutcomes ==
    [][\A j \in JobIds :
         /\ (ext[j].pc = "solve" /\ ext'[j].pc = "parse")
               => (~ext'[j].solve.timed_out /\ ext'[j].solve.returncode \in {0, 3})
         /\ (ext[j].pc = "solve" /\ ext'[j].pc = "exited")
               => /\ ext'[j].stdout.json
                  /\ ~ext'[j].stdout.doc.ok
                  /\ ext'[j].stdout.doc.error # ""
                  /\ ext'[j].stdout.doc.astrometry = ""
                  /\ ext'[j].stdout.doc.capture = ext[j].capture
         /\ (ext[j].pc \in {"parse", "emit"} /\ ext'[j].pc = "exited")
               => /\ ext'[j].stdout.json
                  /\ ext'[j].stdout.doc.ok
                  /\ ext'[j].stdout.doc.astrometry # ""]_vars

\* the artifacts of one job identifier: directories, input copy, status
\* document, result document, log
ArtifactsOf(id) == <<dirs[id], inputFile[id], statusFile[id], resultFile[id], logFile[id]>>

\* a step of an operation performed for identifier id: of its submit, of its
\* worker and the worker's child, or of a status or result call for it
StepFor(id) ==
    \/ CmdStatus(id)
    \/ CmdResult(id)
    \/ (CmdResultNotReady /\ rdr.id = id)
    \/ /\ id \in JobIds
       /\ \/ \E a \in SubmitArgs : Submit(id, a)
          \/ SubmitWriteStatus(id) \/ SubmitStatusWritten(id) \/ SubmitSpawn(id)
          \/ WorkerStart(id) \/ WorkerStatusWritten(id)
          \/ \E l \in Launches : WorkerRun(id, l)
          \/ WorkerCollect(id) \/ WorkerExcept(id) \/ WorkerWriteResult(id)
          \/ WorkerResultWritten(id) \/ WorkerFinalStatus(id)
          \/ ExtractStart(id)
          \/ \E o \in SolveOutcomes : ExtractSolveField(id, o)
          \/ ExtractParse(id) \/ ExtractEmit(id)

C19_SingleStatusWriter ==
    \A j \in JobIds :
        /\ ~(sub[j].pc = "writing" /\ wrk[j].pc \in {"processing", "finishing"})
        /\ sub[j].pc \in {"queue", "writing", "spawn"}
              => (wrk[j].pc = "none" /\ StateOf(j) \in {"", "queued"})
        /\ wrk[j].pc # "none" <=> sub[j].pc = "returned"
        /\ sub[j].pc \in {"idle", "input_not_found"} => ~statusFile[j].exists

\* C19 witness: the worker is writing the terminal status of a job whose
\* submit has returned
C19_Witness ==
    \E j \in JobIds : /\ wrk[j].pc = "finishing"
                      /\ sub[j].pc = "returned"
                      /\ ~statusFile[j].whole


\* a header whose center cards are each absent or numeric
CenterCards == {c \in Cards : c.kind # "text"}

\* C21: when the .wcs header exists, the plate-transform matrix that is read
\* is the same whichever of CRVAL1, CRVAL2 the header has, and a field center
\* found in the solver's report is not replaced by the header's values.
C21_HeaderRulesIndependent ==
    [][(ReadWcs /\ run.wcs.exists
          /\ run.wcs.CRVAL1 \in CenterCards /\ run.wcs.CRVAL2 \in CenterCards)
         => /\ \A c1 \in CenterCards, c2 \in CenterCards :
                  ReadWcsHeader([run.wcs EXCEPT !.CRVAL1 = c1, !.CRVAL2 = c2],
                                run.ra_center, run.dec_center).cd_matrix
                     = run'.cd_matrix
            /\ run.ra_center.some => run'.ra_center = run.ra_center
            /\ run.dec_center.some => run'.dec_center = run.dec_center]_vars


\* C22: every persisted status document of a job has created_at, the time of
\* the job's first status write, and updated_at >= created_at; successive
\* status writes of one job never decrease updated_at.  A status write that
\* finds no file stamps created_at and updated_at with the current time; one
\* that finds a document keeps its created_at and does not lower its
\* updated_at; the document that reaches the file is the writer's.
C22_Timestamps ==
    /\ [](\A j \in JobIds :
            (statusFile[j].exists /\ statusFile[j].whole)
               => /\ statusFile[j].doc.created_at.some
                  /\ statusFile[j].doc.updated_at >= statusFile[j].doc.created_at.v)
    /\ [][\A j \in JobIds :
            /\ (statusFile'[j] # statusFile[j] /\ ~statusFile'[j].whole)
                  => IF statusFile[j].exists
                     THEN /\ statusFile[j].whole
                          /\ Pending(j)'.created_at = statusFile[j].doc.created_at
                          /\ Pending(j)'.updated_at >= statusFile[j].doc.updated_at
                     ELSE /\ Pending(j)'.created_at = Some(now)
                          /\ Pending(j)'.updated_at = now
            /\ (statusFile'[j] # statusFile[j] /\ statusFile'[j].whole)
                  => /\ ~statusFile[j].whole
                     /\ statusFile'[j].doc = Pending(j)]_vars

\* C22: a job whose terminal status was written later than its first one
C22_Witness ==
    \E j \in JobIds :
       /\ statusFile[j].exists /\ statusFile[j].whole
       /\ statusFile[j].doc.state \in {"done", "error"}
       /\ statusFile[j].doc.created_at.some
       /\ statusFile[j].doc.updated_at > statusFile[j].doc.created_at.v


\* an object made only of JSON primitives, lists and string-keyed objects
RECURSIVE IsNative(_)
IsNative(obj) ==
    /\ obj.type \in {"NoneType", "bool", "int", "float", "str", "list", "dict"}
    /\ \A i \in 1..Len(obj.items) : IsNative(obj.items[i])
    /\ \A i \in 1..Len(obj.keys) : obj.keys[i].type = "str"

\* C23: to_native returns, without raising, an object made only of JSON
\* primitives, lists and string-keyed objects, and applied to that object it
\* returns an equal one.
C23_TotalIdempotent ==
    /\ call.pc \in {"native", "again"}
          => call.out[1].ok /\ IsNative(call.out[1].v)
    /\ call.pc = "again"
          => call.out[2].ok /\ call.out[2].v = call.out[1].v


\* C24: the separation of a point from itself is 0, the separation of two
\* points is the same in either order, and every separation is defined (an
\* angle of 0 to 180 degrees).
C24_ZeroSymmetricDefined ==
    /\ (call.pc \in {"sep", "swapped"}
          /\ call.args[1] = call.args[3] /\ call.args[2] = call.args[4])
          => call.out[1] = 0
    /\ call.pc = "swapped" => call.out[2] = call.out[1]
    /\ call.pc \in {"sep", "swapped"} => call.out[1] \in 0..180

====
